---- MODULE Spec2Model ----
(***************************************************************************)
(* Model of the welcome-mail backend (server.js, mensagem.js).             *)
(*                                                                         *)
(* A JavaScript string is a sequence of tokens.  A token is either one     *)
(* character ("a", "@", "$", " ", ...) or an opaque chunk of literal       *)
(* template / message text that holds no "{{nome}}", does not begin or     *)
(* end with a brace, and is never inspected character by character.        *)
(* A JSON value of the request body is a record [t, v]: t is its           *)
(* JavaScript type and v the token sequence String(value) yields.          *)
(***************************************************************************)
EXTENDS Naturals, Sequences, FiniteSets

\* ------------------------------------------------------------------------
\* Bounds of the exploration
\* ------------------------------------------------------------------------
MaxReq      == 2    \* requests that can be in flight together
MaxNameLen  == 3    \* longest enumerated nome
MaxEmailLen == 5    \* longest enumerated email

Reqs == 1 .. MaxReq

\* ------------------------------------------------------------------------
\* JavaScript values and strings
\* ------------------------------------------------------------------------
WhiteSpace == {" ", "\t", "\n"}
Grave      == "grave"     \* the token of the grave accent character (U+0060)

Undefined == [t |-> "undefined", v |-> <<"undefined">>]
Num(d)    == [t |-> "number", v |-> <<d>>]
Str(s)    == [t |-> "string", v |-> s]
Arr(s)    == [t |-> "array", v |-> s]      \* the one-element array [s]

\* !x is false
Truthy(x) ==
    CASE x.t = "undefined" -> FALSE
      [] x.t = "number"    -> x.v # <<"0">>
      [] x.t = "string"    -> x.v # <<>>
      [] OTHER             -> TRUE

\* x.trim is a function (only strings have it)
HasTrim(x) == x.t = "string"

\* String.prototype.trim
Trim(s) ==
    LET keep == {i \in 1 .. Len(s) : s[i] \notin WhiteSpace}
    IN  IF keep = {} THEN <<>>
        ELSE LET first == CHOOSE i \in keep : \A j \in keep : i <= j
                 last  == CHOOSE i \in keep : \A j \in keep : j <= i
             IN  SubSeq(s, first, last)

\* /^[^\s@]+@[^\s@]+\.[^\s@]+$/.test(s)
emailRegex(s) ==
    \E i \in 2 .. Len(s) :
        /\ s[i] = "@"
        /\ \A k \in (1 .. Len(s)) \ {i} : s[k] \notin (WhiteSpace \cup {"@"})
        /\ \E j \in (i + 2) .. (Len(s) - 1) : s[j] = "."

\* s[i .. i+Len(p)-1] = p
MatchAt(s, p, i) ==
    /\ i + Len(p) - 1 <= Len(s)
    /\ \A k \in 1 .. Len(p) : s[i + k - 1] = p[k]

Contains(s, p) == \E i \in 1 .. (Len(s) + 1) : MatchAt(s, p, i)

\* ------------------------------------------------------------------------
\* mensagem.js : the template module
\* ------------------------------------------------------------------------
Placeholder == <<"{", "{", "n", "o", "m", "e", "}", "}">>

\* assunto holds no placeholder; texto and html hold one each, between two
\* chunks of literal text ("[...]" abbreviates what the source spells out).

MensagemModule ==
    [assunto |-> <<"Bem-vindo(a) ao DevTogheter">>,
     texto   |-> <<"Ola, ">> \o Placeholder
                   \o <<"! Seja bem-vindo(a) [...] Equipe do Sistema">>,
     html    |-> <<"<!DOCTYPE html>[...]<p>Ola, <span class=highlight>">>
                   \o Placeholder
                   \o <<"</span>!</p>[...]</html>">>]


\* ------------------------------------------------------------------------
\* String.prototype.replace(/{{nome}}/g, replacement)
\* ------------------------------------------------------------------------
RECURSIVE GetSubstitution(_, _, _, _, _)
\* Expansion of the replacement string from its k-th token on: "$$", "$&",
\* "$" + grave accent and "$'" are patterns; "$" before anything else is
\* literal (the regular expression has no capture group, numbered or named).
GetSubstitution(replacement, k, matched, before, after) ==
    IF k > Len(replacement) THEN <<>>
    ELSE IF replacement[k] = "$" /\ k < Len(replacement)
              /\ replacement[k + 1] \in {"$", "&", Grave, "'"}
         THEN (CASE replacement[k + 1] = "$" -> <<"$">>
                 [] replacement[k + 1] = "&" -> matched
                 [] replacement[k + 1] = Grave -> before
                 [] OTHER                    -> after)
              \o GetSubstitution(replacement, k + 2, matched, before, after)
         ELSE <<replacement[k]>>
              \o GetSubstitution(replacement, k + 1, matched, before, after)

RECURSIVE ReplaceFrom(_, _, _, _)
ReplaceFrom(str, pattern, replacement, i) ==
    IF i > Len(str) THEN <<>>
    ELSE IF MatchAt(str, pattern, i)
         THEN GetSubstitution(replacement, 1, pattern,
                              SubSeq(str, 1, i - 1),
                              SubSeq(str, i + Len(pattern), Len(str)))
              \o ReplaceFrom(str, pattern, replacement, i + Len(pattern))
         ELSE <<str[i]>> \o ReplaceFrom(str, pattern, replacement, i + 1)

replace(str, pattern, replacement) == ReplaceFrom(str, pattern, replacement, 1)

\* ------------------------------------------------------------------------
\* server.js : POST /send-welcome, piece by piece
\* ------------------------------------------------------------------------
Absent == "(absent)"     \* a property the JSON response does not carry

\* The mensagem texts, each one token, written without their diacritics

MsgObrigatorios  == <<"Nome e email sao obrigatorios">>
MsgEmailInvalido == <<"Formato de email invalido">>
MsgNomeCurto     == <<"Nome deve ter pelo menos 2 caracteres">>
MsgErroInterno   == <<"Erro interno do servidor ao enviar email">>

\* Mutant: the length test on the name as submitted
NomeCurtoUntrimmed(nome) == Len(nome.v) < 2

\* if (nome.trim().length < 2), for a nome that has trim
NomeCurto(nome) == Len(Trim(nome.v)) < 2

\* Mutant: the name length tested before the email format
ValidateNameFirst(nome, email) ==
    IF ~Truthy(nome) \/ ~Truthy(email) THEN "MissingField"
    ELSE IF ~HasTrim(nome) THEN "TypeError"
    ELSE IF Len(Trim(nome.v)) < 2 THEN "NameTooShort"
    ELSE IF ~emailRegex(email.v) THEN "InvalidEmailFormat"
    ELSE "Valid"

\* Section 7.2: the outcome of the three tests in their order.  "TypeError"
\* is nome.trim() raising because nome is no string.
Validate(nome, email) ==
    IF ~Truthy(nome) \/ ~Truthy(email) THEN "MissingField"
    ELSE IF ~emailRegex(email.v) THEN "InvalidEmailFormat"
    ELSE IF ~HasTrim(nome) THEN "TypeError"
    ELSE IF NomeCurto(nome) THEN "NameTooShort"
    ELSE "Valid"

Rejections == {"MissingField", "InvalidEmailFormat", "NameTooShort"}

\* res.status(400).json({ sucesso: false, mensagem: ... })
RejectBody(reason) ==
    [status   |-> 400,
     sucesso  |-> FALSE,
     mensagem |-> CASE reason = "MissingField"       -> MsgObrigatorios
                    [] reason = "InvalidEmailFormat" -> MsgEmailInvalido
                    [] OTHER                         -> MsgNomeCurto,
     emailId  |-> Absent]

\* Section 7.3: assunto, textoPersonalizado, htmlPersonalizado
Personalizar(m, nome) ==
    [subject |-> m.assunto,
     text    |-> replace(m.texto, Placeholder, Trim(nome.v)),
     html    |-> replace(m.html, Placeholder, Trim(nome.v))]

\* Mutant: the rendered strings written back into the module object
MensagemOverwritten(m, nome) ==
    [m EXCEPT !.texto = replace(m.texto, Placeholder, Trim(nome.v)),
              !.html = replace(m.html, Placeholder, Trim(nome.v))]

\* The handler binds the rendered strings to locals: the module object it
\* read them from is what it was.
MensagemAfter(m, nome) == m

\* Section 7.4: the argument of resend.emails.send
SendArgs(m, nome, email) ==
    [from    |-> "FROM_EMAIL",
     to      |-> <<Trim(email.v)>>,
     subject |-> Personalizar(m, nome).subject,
     text    |-> Personalizar(m, nome).text,
     html    |-> Personalizar(m, nome).html]

\* Mutant: emailId read from a property data does not have
SuccessBodyNoId(nome, id) ==
    [status   |-> 200,
     sucesso  |-> TRUE,
     mensagem |-> <<"Boas-vindas enviadas para ">> \o nome.v
                    \o <<"! Verifique seu email.">>,
     emailId  |-> Absent]

\* Section 7.5: res.json({ sucesso: true, mensagem, emailId: data.id })
SuccessBody(nome, id) ==
    [status   |-> 200,
     sucesso  |-> TRUE,
     mensagem |-> <<"Boas-vindas enviadas para ">> \o nome.v
                    \o <<"! Verifique seu email.">>,
     emailId  |-> id]

\* Mutant: the caught error's message sent to the client
ErrorBodyLeaking(error) ==
    [status   |-> 500,
     sucesso  |-> FALSE,
     mensagem |-> error,
     emailId  |-> Absent]

\* Section 7.6: the catch block's response to the error it caught
ErrorBody(error) ==
    [status   |-> 500,
     sucesso  |-> FALSE,
     mensagem |-> MsgErroInterno,
     emailId  |-> Absent]

\* console.log / console.error lines
LogEnviando(nome, email) ==
    [level |-> "log",
     text  |-> <<"Enviando boas-vindas para: ">> \o nome.v \o <<" (">>
               \o email.v \o <<")">>]
LogEnviado(id) ==
    [level |-> "log", text |-> <<"Email enviado com sucesso! ID: ", id>>]
LogErroEnvio(message) ==
    [level |-> "error", text |-> <<"Erro ao enviar email: ">> \o message]
LogErroServidor(message) ==
    [level |-> "error", text |-> <<"Erro no servidor: ">> \o message]

\* new Error(`Falha no envio: ${error.message}`).message
FalhaNoEnvio(message) == <<"Falha no envio: ">> \o message

TypeErrorNome  == <<"TypeError: nome.trim is not a function">>
TypeErrorEmail == <<"TypeError: email.trim is not a function">>

\* ------------------------------------------------------------------------
\* State
\* ------------------------------------------------------------------------
VARIABLES
    mensagem,    \* the object require('./mensagem') returned, shared
    body,        \* body[r]: req.body of request r
    trace,       \* trace[r]: the stages request r has gone through
    calls,       \* calls[r]: the arguments of r's resend.emails.send calls
    outcome,     \* outcome[r]: how r's send call settled
    responses,   \* responses[r]: the responses written for r
    console      \* console[r]: the lines r's handler logged

vars == <<mensagem, body, trace, calls, outcome, responses, console>>

NoBody    == [nome |-> Undefined, email |-> Undefined]
NoOutcome == [kind |-> "pending", id |-> Absent, message |-> <<>>]

Init ==
    /\ mensagem  = MensagemModule
    /\ body      = [r \in Reqs |-> NoBody]
    /\ trace     = [r \in Reqs |-> <<>>]
    /\ calls     = [r \in Reqs |-> <<>>]
    /\ outcome   = [r \in Reqs |-> NoOutcome]
    /\ responses = [r \in Reqs |-> <<>>]
    /\ console   = [r \in Reqs |-> <<>>]

Stage(r) == IF trace[r] = <<>> THEN "None" ELSE trace[r][Len(trace[r])]

\* ------------------------------------------------------------------------
\* Actions
\* ------------------------------------------------------------------------
\* The handler from its entry to the await of resend.emails.send (or to the
\* response it writes before): one run-to-completion step of the event loop.
SendWelcome(r, nome, email) ==
    /\ trace[r] = <<>>
    /\ body' = [body EXCEPT ![r] = [nome |-> nome, email |-> email]]
    /\ outcome' = outcome
    /\ LET v == Validate(nome, email) IN
       IF v \in Rejections THEN
            /\ trace' = [trace EXCEPT ![r] = <<"Received", "Validating", "Rejected">>]
            /\ responses' = [responses EXCEPT ![r] = Append(@, RejectBody(v))]
            /\ UNCHANGED <<mensagem, calls, console>>
       ELSE IF v = "TypeError" THEN
            /\ trace' = [trace EXCEPT ![r] = <<"Received", "Validating", "Failed">>]
            /\ console' = [console EXCEPT ![r] = Append(@, LogErroServidor(TypeErrorNome))]
            /\ responses' = [responses EXCEPT ![r] = Append(@, ErrorBody(TypeErrorNome))]
            /\ UNCHANGED <<mensagem, calls>>
       ELSE IF ~HasTrim(email) THEN
            \* to: [email.trim()] raises while the argument is built
            /\ trace' = [trace EXCEPT ![r] =
                  <<"Received", "Validating", "Rendering", "Sending", "Failed">>]
            /\ mensagem' = MensagemAfter(mensagem, nome)
            /\ console' = [console EXCEPT ![r] =
                  @ \o <<LogEnviando(nome, email), LogErroServidor(TypeErrorEmail)>>]
            /\ responses' = [responses EXCEPT ![r] = Append(@, ErrorBody(TypeErrorEmail))]
            /\ UNCHANGED calls
       ELSE
            /\ trace' = [trace EXCEPT ![r] =
                  <<"Received", "Validating", "Rendering", "Sending">>]
            /\ mensagem' = MensagemAfter(mensagem, nome)
            /\ console' = [console EXCEPT ![r] = Append(@, LogEnviando(nome, email))]
            /\ calls' = [calls EXCEPT ![r] = Append(@, SendArgs(mensagem, nome, email))]
            /\ UNCHANGED responses

\* The awaited promise fulfils with { data: { id }, error: null }.
SendResolved(r, id) ==
    /\ Stage(r) = "Sending"
    /\ outcome' = [outcome EXCEPT ![r] = [kind |-> "data", id |-> id, message |-> <<>>]]
    /\ console' = [console EXCEPT ![r] = Append(@, LogEnviado(id))]
    /\ responses' = [responses EXCEPT ![r] = Append(@, SuccessBody(body[r].nome, id))]
    /\ trace' = [trace EXCEPT ![r] = Append(@, "Confirmed")]
    /\ UNCHANGED <<mensagem, body, calls>>

\* The awaited promise fulfils with { data: null, error: { message } }.
SendReturnedError(r, message) ==
    /\ Stage(r) = "Sending"
    /\ outcome' = [outcome EXCEPT ![r] = [kind |-> "error", id |-> Absent, message |-> message]]
    /\ console' = [console EXCEPT ![r] =
          @ \o <<LogErroEnvio(message), LogErroServidor(FalhaNoEnvio(message))>>]
    /\ responses' = [responses EXCEPT ![r] = Append(@, ErrorBody(FalhaNoEnvio(message)))]
    /\ trace' = [trace EXCEPT ![r] = Append(@, "Failed")]
    /\ UNCHANGED <<mensagem, body, calls>>

\* The awaited promise rejects: the await raises.
SendRaised(r, message) ==
    /\ Stage(r) = "Sending"
    /\ outcome' = [outcome EXCEPT ![r] = [kind |-> "throw", id |-> Absent, message |-> message]]
    /\ console' = [console EXCEPT ![r] = Append(@, LogErroServidor(message))]
    /\ responses' = [responses EXCEPT ![r] = Append(@, ErrorBody(message))]
    /\ trace' = [trace EXCEPT ![r] = Append(@, "Failed")]
    /\ UNCHANGED <<mensagem, body, calls>>

\* ------------------------------------------------------------------------
\* Inputs
\* ------------------------------------------------------------------------
SeqsUpTo(S, n) == UNION {[1 .. k -> S] : k \in 0 .. n}

NameChars  == {" ", "a", "$"}
EmailChars == {"a", "@", ".", " "}

AnEmail == <<"a", "@", "a", ".", "a">>

SpecialNames ==
    {<<"$", "&">>, <<"$", Grave>>, <<"$", "'">>, <<"$", "1">>, Placeholder,
     <<"A", "n", "a">>}
SpecialEmails ==
    {<<" ">>, <<" ">> \o AnEmail, AnEmail \o <<" ">>, <<"a", " ", "@", "a", ".", "a">>}

Nomes ==
    {Undefined, Num("0"), Num("5")}
    \cup {Str(s) : s \in SeqsUpTo(NameChars, MaxNameLen) \cup SpecialNames}
Emails ==
    {Undefined, Num("0"), Num("5"), Arr(AnEmail)}
    \cup {Str(s) : s \in SeqsUpTo(EmailChars, MaxEmailLen) \cup SpecialEmails}

\* The bodies the concurrent exploration posts
SomeNomes  == {Num("5"), Str(<<"a">>), Str(<<"a", "a">>), Str(<<"$", "&">>)}
SomeEmails == {Str(AnEmail), Str(<<"a", "@", "a">>), Arr(AnEmail)}

Ids            == {"abc123", "def456"}
ProviderErrors == {<<"API key is invalid">>, <<"daily quota exceeded">>}

\* ------------------------------------------------------------------------
\* Specifications
\* ------------------------------------------------------------------------
\* Up to MaxReq requests in flight, each suspended at its own await.
Post ==
    \E r \in Reqs :
        /\ trace[r] = <<>>
        /\ \E n \in SomeNomes, e \in SomeEmails : SendWelcome(r, n, e)
Resolve     == \E r \in Reqs, id \in Ids : SendResolved(r, id)
ReturnError == \E r \in Reqs, m \in ProviderErrors : SendReturnedError(r, m)
Raise       == \E r \in Reqs, m \in ProviderErrors : SendRaised(r, m)

Next == Post \/ Resolve \/ ReturnError \/ Raise

Spec == Init /\ [][Next]_vars

\* One request, every enumerated body.
PostAny ==
    /\ trace[1] = <<>>
    /\ \E n \in Nomes, e \in Emails : SendWelcome(1, n, e)
ResolveOne     == \E id \in Ids : SendResolved(1, id)
ReturnErrorOne == \E m \in ProviderErrors : SendReturnedError(1, m)
RaiseOne       == \E m \in ProviderErrors : SendRaised(1, m)

NextInputs == PostAny \/ ResolveOne \/ ReturnErrorOne \/ RaiseOne

SpecInputs == Init /\ [][NextInputs]_vars

\* ------------------------------------------------------------------------
\* Vocabulary of the properties
\* ------------------------------------------------------------------------
Arrived == {r \in Reqs : trace[r] # <<>>}

\* absent, not a string, empty, or empty once trimmed
FieldMissing(x) == x.t # "string" \/ Trim(x.v) = <<>>

\* a string of the shape local@domain.suffix
WellFormed(x) == x.t = "string" /\ emailRegex(x.v)

Rejected(reason) == <<RejectBody(reason)>>

RECURSIVE VerbatimFrom(_, _, _, _)
\* str with every occurrence of pattern from position i on replaced by the
\* tokens of value, untouched
VerbatimFrom(str, pattern, value, i) ==
    IF i > Len(str) THEN <<>>
    ELSE IF MatchAt(str, pattern, i)
         THEN value \o VerbatimFrom(str, pattern, value, i + Len(pattern))
         ELSE <<str[i]>> \o VerbatimFrom(str, pattern, value, i + 1)

Verbatim(str, value) == VerbatimFrom(str, Placeholder, value, 1)

\* C1: a request whose input fails validation (a field missing, the email
\* malformed, or the trimmed name shorter than 2) is answered 400 with
\* sucesso false and never reaches resend.emails.send; send is invoked only
\* for input that passes the three rules.
C1_InvalidInputGets400AndNoSend ==
    \A r \in Arrived :
        LET n == body[r].nome
            e == body[r].email
            invalid == \/ FieldMissing(n) \/ FieldMissing(e)
                       \/ ~emailRegex(e.v)
                       \/ Len(Trim(n.v)) < 2
        IN  /\ invalid =>
                /\ calls[r] = <<>>
                /\ Len(responses[r]) = 1
                /\ responses[r][1].status = 400
                /\ responses[r][1].sucesso = FALSE
            /\ calls[r] # <<>> => ~invalid

\* C2: when nome or email is absent, not a string, empty or whitespace-only,
\* the response is the 400 "Nome e email sao obrigatorios", whatever the
\* other field is.
C2_MissingFieldYieldsObrigatorios ==
    \A r \in Arrived :
        (FieldMissing(body[r].nome) \/ FieldMissing(body[r].email))
            => responses[r] = Rejected("MissingField")

C4_TrimmedLengthDecides ==
    \A r \in Arrived :
        LET n == body[r].nome
            e == body[r].email
        IN  (WellFormed(e) /\ n.t = "string") =>
                /\ Len(Trim(n.v)) < 2 => responses[r] = Rejected("NameTooShort")
                /\ Len(Trim(n.v)) >= 2 =>
                      /\ Len(calls[r]) = 1
                      /\ SubSeq(trace[r], 1, 4)
                            = <<"Received", "Validating", "Rendering", "Sending">>

\* C4 amended: the same, for a name that is a non-empty string (the empty
\* name is a missing field).
C4_TrimmedLengthDecidesNonEmpty ==
    \A r \in Arrived :
        LET n == body[r].nome
            e == body[r].email
        IN  (WellFormed(e) /\ n.t = "string" /\ n.v # <<>>) =>
                /\ Len(Trim(n.v)) < 2 =>
                      /\ responses[r] = Rejected("NameTooShort")
                      /\ calls[r] = <<>>
                /\ Len(Trim(n.v)) >= 2 =>
                      /\ Len(calls[r]) = 1
                      /\ SubSeq(trace[r], 1, 4)
                            = <<"Received", "Validating", "Rendering", "Sending">>

\* C4 witness: a name that is long enough only with its surrounding
\* whitespace has been rejected as too short.
C4_Witness ==
    \E r \in Arrived :
        /\ WellFormed(body[r].email)
        /\ body[r].nome.t = "string"
        /\ Len(body[r].nome.v) >= 2
        /\ Len(Trim(body[r].nome.v)) = 1
        /\ responses[r] = Rejected("NameTooShort")

\* C5: no field of a message handed to resend.emails.send holds the
\* placeholder, whatever the validated name is.
C5_NoPlaceholderRemains ==
    \A r \in Arrived : \A i \in 1 .. Len(calls[r]) :
        /\ ~Contains(calls[r][i].subject, Placeholder)
        /\ ~Contains(calls[r][i].text, Placeholder)
        /\ ~Contains(calls[r][i].html, Placeholder)

\* C6: each field of a message handed to resend.emails.send is the template
\* field with every placeholder replaced by the trimmed name, token for
\* token, and the rest of the template unchanged.
C6_NameInsertedVerbatim ==
    \A r \in Arrived : \A i \in 1 .. Len(calls[r]) :
        LET name == Trim(body[r].nome.v) IN
        /\ calls[r][i].subject = Verbatim(MensagemModule.assunto, name)
        /\ calls[r][i].text = Verbatim(MensagemModule.texto, name)
        /\ calls[r][i].html = Verbatim(MensagemModule.html, name)

\* C7: when the send call returns an error or raises, the one response is
\* 500, sucesso false, the fixed message; nothing the provider said is in
\* the response, and it is in the log.
C7_SendFailureIsOpaque500 ==
    \A r \in Arrived :
        outcome[r].kind \in {"error", "throw"} =>
            /\ Len(responses[r]) = 1
            /\ responses[r][1].status = 500
            /\ responses[r][1].sucesso = FALSE
            /\ responses[r][1].mensagem = MsgErroInterno
            /\ responses[r][1].emailId = Absent
            /\ ~Contains(responses[r][1].mensagem, outcome[r].message)
            /\ \E k \in 1 .. Len(console[r]) :
                  /\ console[r][k].level = "error"
                  /\ Contains(console[r][k].text, outcome[r].message)

\* C7 witness: one send call has returned an error and another has raised,
\* and both requests are answered.
C7_Witness ==
    \E r1, r2 \in Arrived :
        /\ outcome[r1].kind = "error" /\ responses[r1] # <<>>
        /\ outcome[r2].kind = "throw" /\ responses[r2] # <<>>

\* C8: when the send call succeeds with id X, send was invoked once, to the
\* submitted email alone, and the one response is 200, sucesso true, a
\* mensagem holding the name, emailId X.
C8_SuccessCarriesProviderId ==
    \A r \in Arrived :
        outcome[r].kind = "data" =>
            /\ Len(calls[r]) = 1
            /\ calls[r][1].to = <<body[r].email.v>>
            /\ Len(responses[r]) = 1
            /\ responses[r][1].status = 200
            /\ responses[r][1].sucesso = TRUE
            /\ Contains(responses[r][1].mensagem, body[r].nome.v)
            /\ responses[r][1].emailId = outcome[r].id

\* C8 witness: a send call has succeeded and its request is answered.
C8_Witness ==
    \E r \in Arrived : \E id \in Ids :
        /\ outcome[r] = [kind |-> "data", id |-> id, message |-> <<>>]
        /\ responses[r] # <<>>

\* C9: every request moves along Received, Validating, then Rejected or
\* Rendering, Sending, then Confirmed or Failed; it has a response exactly
\* when it is in Rejected, Confirmed or Failed, never more than one, and
\* send is invoked at most once.
StateMachinePaths ==
    {<<"Received", "Validating", "Rejected">>,
     <<"Received", "Validating", "Rendering", "Sending", "Confirmed">>,
     <<"Received", "Validating", "Rendering", "Sending", "Failed">>}

C9_FollowsStateMachine ==
    \A r \in Arrived :
        /\ \E path \in StateMachinePaths :
              /\ Len(trace[r]) <= Len(path)
              /\ trace[r] = SubSeq(path, 1, Len(trace[r]))
        /\ Len(calls[r]) <= 1
        /\ Len(responses[r]) <= 1
        /\ (Len(responses[r]) = 1) <=> (Stage(r) \in {"Rejected", "Confirmed", "Failed"})

\* C10: the shared template is what was loaded, and what each request sent
\* and answered is decided by its own body and its own send outcome.
OwnCalls(b) ==
    IF Validate(b.nome, b.email) = "Valid" /\ HasTrim(b.email)
    THEN <<SendArgs(MensagemModule, b.nome, b.email)>>
    ELSE <<>>

OwnResponses(b, o, arrived) ==
    LET v == Validate(b.nome, b.email) IN
    IF ~arrived THEN <<>>
    ELSE IF v \in Rejections THEN <<RejectBody(v)>>
    ELSE IF v = "TypeError" \/ ~HasTrim(b.email) THEN <<ErrorBody(<<>>)>>
    ELSE IF o.kind = "pending" THEN <<>>
    ELSE IF o.kind = "data" THEN <<SuccessBody(b.nome, o.id)>>
    ELSE <<ErrorBody(o.message)>>

C10_RequestsAreIndependent ==
    /\ mensagem = MensagemModule
    /\ \A r \in Reqs :
          /\ calls[r] = (IF r \in Arrived THEN OwnCalls(body[r]) ELSE <<>>)
          /\ responses[r] = OwnResponses(body[r], outcome[r], r \in Arrived)

\* C10 witness: two requests with different bodies have both invoked send;
\* one is still suspended at its await while the other is answered.
C10_Witness ==
    \E r1, r2 \in Arrived :
        /\ body[r1] # body[r2]
        /\ calls[r1] # <<>> /\ calls[r2] # <<>>
        /\ Stage(r1) = "Sending"
        /\ responses[r2] # <<>>

====
